---- MODULE Spec2Model ----
(***************************************************************************)
(* Model of the DriverApp client (src/App.tsx): the ride-notification      *)
(* effect (one-shot read of /rides racing with the child_added listener,   *)
(* deduplicated through the closure-captured set existingRideIds), the     *)
(* foreground push handler, the initial-rides effect with its live list    *)
(* subscription, pull-to-refresh, handleStatusUpdate and the effect        *)
(* cleanups.  JavaScript runs every callback to completion on one thread,  *)
(* so each callback / each continuation between two awaits is one action.  *)
(***************************************************************************)
EXTENDS Integers, Sequences, FiniteSets, TLC

\* ------------------------------------------------------------------ bounds
NumIds == 2          \* number of distinct ride ids the remote store may hold
MaxNotif == 2        \* cap on the per-id count of child_added dispatches
MaxPush == 1         \* cap on the per-id count of foreground push dispatches
MaxUpdates == 1      \* cap on the number of handleStatusUpdate invocations

Ids == 1..NumIds
NullKey == 0         \* snapshot.key === null (falsy, line 148)
EmptyKey == 0 - 1    \* the '' that `child.key ?? ''` substitutes (line 137)

Statuses == {"Requested", "Accepted", "Rejected"}
Payloads == {"null", "partial", "full"}   \* snapshot.val(): null / lacks locations / complete

VARIABLES
  remote,            \* the remote store /rides: id -> "none" or a status
  existingRideIds,   \* the Set captured by the notification effect's closures
  localNotif,        \* id -> number of PushNotification.localNotification calls made by handleChildAdded
  pushNotif,         \* id -> number of showLocalNotification calls made by the onMessage handler
  snapState,         \* ridesRef.once('value'): "pending", "served", "done", "failed"
  snapKeys,          \* keys of the children of the value snapshot once served
  childAddedOn,      \* handleChildAdded is registered on ridesRef
  initPc,            \* initializeApp: "initialize", "getRides", "served", "ready", "initFailed", "readFailed"
  initResult,        \* value getRides() will resolve to
  rides,             \* useState rides
  loading,           \* useState loading
  refreshing,        \* useState refreshing
  refreshPc,         \* onRefresh: "idle", "pending", "served"
  refreshResult,     \* value the refresh getRides() will resolve to
  ridesSubscribed,   \* a subscribeToRides callback is registered
  pushPc,            \* initPush: "init", "listening", "failed"
  onMessageOn,       \* a messaging().onMessage handler is registered
  updateReq,         \* in-flight handleStatusUpdate call
  invocations,       \* number of handleStatusUpdate invocations
  alerts,            \* number of Alert.alert messages shown by handleStatusUpdate
  lastAlert,         \* kind of the last such message
  mounted,           \* the App component is mounted (effect cleanups not yet run)
  lastEvent          \* history: the callback that ran last, its key, payload and outcome
                     \* (a refresh result applied right after a live delivery is tagged "afterLive")

vars == << remote, existingRideIds, localNotif, pushNotif, snapState, snapKeys,
           childAddedOn, initPc, initResult, rides, loading, refreshing,
           refreshPc, refreshResult, ridesSubscribed, pushPc, onMessageOn,
           updateReq, invocations, alerts, lastAlert, mounted, lastEvent >>

notifVars == << existingRideIds, localNotif >>
snapVars == << snapState, snapKeys >>
initVars == << initPc, initResult >>
refreshVars == << refreshing, refreshPc, refreshResult >>
pushVars == << pushPc, onMessageOn >>
updateVars == << updateReq, invocations, alerts, lastAlert >>

\* ---------------------------------------------------------------- helpers
Event(op, key, payload, outcome) ==
  [op |-> op, key |-> key, payload |-> payload, outcome |-> outcome]

NoResult == [isNull |-> TRUE, list |-> << >>]
NoUpdate == [id |-> NullKey, status |-> "none"]

\* Keys of the children currently stored under /rides.
StoredKeys(r) == {i \in Ids : r[i] # "none"}

\* The list the service reads from the store: one Ride per stored child, keyed by id.
RidesList(r) ==
  LET F[i \in 0..NumIds] ==
        IF i = 0 THEN << >>
        ELSE IF r[i] = "none" THEN F[i - 1]
        ELSE Append(F[i - 1], [id |-> i, status |-> r[i]])
  IN F[NumIds]

\* Values firebaseService.getRides() may resolve to.
GetRidesResults(r) == {[isNull |-> TRUE, list |-> << >>], [isNull |-> FALSE, list |-> RidesList(r)]}

\* `x ?? []`
OrEmpty(res) == IF res.isNull THEN << >> ELSE res.list

\* `child.key ?? ''`
KeyOrEmpty(k) == IF k = NullKey THEN EmptyKey ELSE k

RideIds(list) == {list[i].id : i \in 1..Len(list)}

StatusOf(list, id) ==
  LET S == {list[i].status : i \in {j \in 1..Len(list) : list[j].id = id}}
  IN S


\* --------------------------------------------------------------- React state
\* A state setter of an unmounted component is a no-op.
\* Mutant: the setter appends to the previous list instead of replacing it.
SetRidesAppend(list) == IF mounted THEN rides \o list ELSE rides

SetRides(list) == IF mounted THEN list ELSE rides
SetLoading(b) == IF mounted THEN b ELSE loading
SetRefreshing(b) == IF mounted THEN b ELSE refreshing

\* ------------------------------------------------------------------- Init
Init ==
  /\ remote \in [Ids -> {"none", "Requested"}]
  /\ existingRideIds = {}
  /\ localNotif = [i \in Ids |-> 0]
  /\ pushNotif = [i \in Ids |-> 0]
  /\ snapState = "pending"
  /\ snapKeys = {}
  /\ childAddedOn = TRUE
  /\ initPc = "initialize"
  /\ initResult = NoResult
  /\ rides = << >>
  /\ loading = TRUE
  /\ refreshing = FALSE
  /\ refreshPc = "idle"
  /\ refreshResult = NoResult
  /\ ridesSubscribed = FALSE
  /\ pushPc = "init"
  /\ onMessageOn = FALSE
  /\ updateReq = NoUpdate
  /\ invocations = 0
  /\ alerts = 0
  /\ lastAlert = "none"
  /\ mounted = TRUE
  /\ lastEvent = Event("mount", NullKey, "null", "none")

\* ------------------------------------------------------------ remote store
\* Another client (a rider) creates a ride; the store assigns status Requested.
RemoteCreate(x) ==
  /\ remote[x] = "none"
  /\ remote' = [remote EXCEPT ![x] = "Requested"]
  /\ lastEvent' = Event("remoteCreate", x, "full", "none")
  /\ UNCHANGED << notifVars, pushNotif, snapVars, childAddedOn, initVars, rides,
                  loading, refreshVars, ridesSubscribed, pushVars, updateVars, mounted >>

\* ------------------------------------------------- ride-notification effect
\* The store answers ridesRef.once('value'): the snapshot's content is fixed here.
SnapshotServe ==
  /\ snapState = "pending"
  /\ snapState' = "served"
  /\ snapKeys' = StoredKeys(remote)
  /\ lastEvent' = Event("snapshotServed", NullKey, "null", "none")
  /\ UNCHANGED << remote, notifVars, pushNotif, childAddedOn, initVars, rides,
                  loading, refreshVars, ridesSubscribed, pushVars, updateVars, mounted >>

\* Mutant: the callback reads the snapshot but marks nothing as existing.
SnapshotCallbackNoMark(keys) ==
  /\ existingRideIds' = existingRideIds
  /\ localNotif' = localNotif

\* Mutant: the callback replaces the set by the snapshot's keys instead of adding to it.
SnapshotCallbackReplace(keys) ==
  /\ existingRideIds' = {KeyOrEmpty(k) : k \in keys}
  /\ localNotif' = localNotif

\* snapshot => { snapshot.forEach(child => existingRideIds.add(child.key ?? '')) }
SnapshotCallback(keys) ==
  /\ existingRideIds' = existingRideIds \cup {KeyOrEmpty(k) : k \in keys}
  /\ localNotif' = localNotif

\* The one-shot read resolves and its callback runs (it is not cancelled by the cleanup).
SnapshotResolve ==
  /\ snapState = "served"
  /\ snapState' = "done"
  /\ SnapshotCallback(snapKeys)
  /\ lastEvent' = Event("snapshot", NullKey, "null", "none")
  /\ UNCHANGED << remote, pushNotif, snapKeys, childAddedOn, initVars, rides,
                  loading, refreshVars, ridesSubscribed, pushVars, updateVars, mounted >>

\* The one-shot read fails: no failure callback was passed, nothing runs.
SnapshotFail ==
  /\ snapState = "pending"
  /\ snapState' = "failed"
  /\ lastEvent' = Event("snapshotFailed", NullKey, "null", "none")
  /\ UNCHANGED << remote, notifVars, pushNotif, snapKeys, childAddedOn, initVars, rides,
                  loading, refreshVars, ridesSubscribed, pushVars, updateVars, mounted >>

\* Mutant: handleChildAdded without the `existingRideIds.has(rideId)` gate.
HandleChildAddedNoGate(key, payload) ==
  IF payload = "null"
    THEN /\ UNCHANGED notifVars
         /\ lastEvent' = Event("child_added", key, payload, "noPayload")
  ELSE IF key = NullKey
    THEN /\ UNCHANGED notifVars
         /\ lastEvent' = Event("child_added", key, payload, "noKey")
  ELSE /\ existingRideIds' = existingRideIds \cup {key}
       /\ localNotif' = [localNotif EXCEPT ![key] = @ + 1]
       /\ lastEvent' = Event("child_added", key, payload, "notified")

\* Mutant: handleChildAdded that notifies but never inserts the id.
HandleChildAddedNoInsert(key, payload) ==
  IF payload = "null"
    THEN /\ UNCHANGED notifVars
         /\ lastEvent' = Event("child_added", key, payload, "noPayload")
  ELSE IF key = NullKey
    THEN /\ UNCHANGED notifVars
         /\ lastEvent' = Event("child_added", key, payload, "noKey")
  ELSE IF key \in existingRideIds
    THEN /\ UNCHANGED notifVars
         /\ lastEvent' = Event("child_added", key, payload, "skipped")
  ELSE /\ existingRideIds' = existingRideIds
       /\ localNotif' = [localNotif EXCEPT ![key] = @ + 1]
       /\ lastEvent' = Event("child_added", key, payload, "notified")

\* handleChildAdded(snapshot) with snapshot.key = key and snapshot.val() of kind payload.
HandleChildAdded(key, payload) ==
  IF payload = "null"
    THEN /\ UNCHANGED notifVars
         /\ lastEvent' = Event("child_added", key, payload, "noPayload")
  ELSE IF key = NullKey
    THEN /\ UNCHANGED notifVars
         /\ lastEvent' = Event("child_added", key, payload, "noKey")
  ELSE IF key \in existingRideIds
    THEN /\ UNCHANGED notifVars
         /\ lastEvent' = Event("child_added", key, payload, "skipped")
  ELSE /\ existingRideIds' = existingRideIds \cup {key}
       /\ localNotif' = [localNotif EXCEPT ![key] = @ + 1]
       /\ lastEvent' = Event("child_added", key, payload, "notified")

\* The store delivers a child_added event (for a stored child, at least once,
\* or a payload without key or value) to the registered listener.
ChildAdded(key, payload) ==
  /\ childAddedOn
  /\ key \in Ids => (remote[key] # "none" /\ localNotif[key] < MaxNotif)
  /\ HandleChildAdded(key, payload)
  /\ UNCHANGED << remote, pushNotif, snapVars, childAddedOn, initVars, rides,
                  loading, refreshVars, ridesSubscribed, pushVars, updateVars, mounted >>

\* ------------------------------------------------------- push-setup effect
\* initPush passes its awaits and registers the foreground handler.
InitPushOk ==
  /\ pushPc = "init"
  /\ pushPc' = "listening"
  /\ onMessageOn' = TRUE
  /\ lastEvent' = Event("initPush", NullKey, "null", "ok")
  /\ UNCHANGED << remote, notifVars, pushNotif, snapVars, childAddedOn, initVars, rides,
                  loading, refreshVars, ridesSubscribed, updateVars, mounted >>

\* One of initPush's awaits rejects: the catch logs, no handler is registered.
InitPushFail ==
  /\ pushPc = "init"
  /\ pushPc' = "failed"
  /\ lastEvent' = Event("initPush", NullKey, "null", "failed")
  /\ UNCHANGED << remote, notifVars, pushNotif, snapVars, childAddedOn, initVars, rides,
                  loading, refreshVars, ridesSubscribed, onMessageOn, updateVars, mounted >>

\* async remoteMessage => showLocalNotification(title ?? 'New Ride', body ?? '')
OnMessage(x) ==
  /\ pushNotif' = [pushNotif EXCEPT ![x] = @ + 1]
  /\ UNCHANGED notifVars

\* A foreground push message announcing ride x arrives.
PushMessage(x) ==
  /\ onMessageOn
  /\ remote[x] # "none"
  /\ pushNotif[x] < MaxPush
  /\ OnMessage(x)
  /\ lastEvent' = Event("onMessage", x, "full", "notified")
  /\ UNCHANGED << remote, snapVars, childAddedOn, initVars, rides,
                  loading, refreshVars, ridesSubscribed, pushVars, updateVars, mounted >>


\* ------------------------------------------------------ initial-rides effect
\* await firebaseService.initialize() resolves.
InitializeOk ==
  /\ initPc = "initialize"
  /\ initPc' = "getRides"
  /\ lastEvent' = Event("initialize", NullKey, "null", "ok")
  /\ UNCHANGED << remote, notifVars, pushNotif, snapVars, childAddedOn, initResult, rides,
                  loading, refreshVars, ridesSubscribed, pushVars, updateVars, mounted >>

\* Mutant: the catch only logs and leaves the loading flag set.
InitCatchKeepLoading ==
  /\ loading' = loading
  /\ UNCHANGED << rides, ridesSubscribed >>

\* catch (err) { setLoading(false) }
InitCatch ==
  /\ loading' = SetLoading(FALSE)
  /\ UNCHANGED << rides, ridesSubscribed >>

\* await firebaseService.initialize() rejects.
InitializeFail ==
  /\ initPc = "initialize"
  /\ initPc' = "initFailed"
  /\ InitCatch
  /\ lastEvent' = Event("initialize", NullKey, "null", "failed")
  /\ UNCHANGED << remote, notifVars, pushNotif, snapVars, childAddedOn, initResult,
                  refreshVars, pushVars, updateVars, mounted >>

\* The store answers the initial getRides(): its result is fixed here.
GetRidesServe(res) ==
  /\ initPc = "getRides"
  /\ initPc' = "served"
  /\ initResult' = res
  /\ lastEvent' = Event("getRidesServed", NullKey, "null", "none")
  /\ UNCHANGED << remote, notifVars, pushNotif, snapVars, childAddedOn, rides,
                  loading, refreshVars, ridesSubscribed, pushVars, updateVars, mounted >>

\* setRides(initialRides ?? []); unsubscribe = subscribeToRides(cb); setLoading(false)
InitContinue(initialRides) ==
  /\ rides' = SetRides(OrEmpty(initialRides))
  /\ ridesSubscribed' = TRUE
  /\ loading' = SetLoading(FALSE)

\* await firebaseService.getRides() resolves and initializeApp runs to its end.
GetRidesResolve ==
  /\ initPc = "served"
  /\ initPc' = "ready"
  /\ InitContinue(initResult)
  /\ initResult' = NoResult
  /\ lastEvent' = Event("initialRead", NullKey, "null", "ok")
  /\ UNCHANGED << remote, notifVars, pushNotif, snapVars, childAddedOn,
                  refreshVars, pushVars, updateVars, mounted >>

\* await firebaseService.getRides() rejects.
GetRidesFail ==
  /\ initPc = "getRides"
  /\ initPc' = "readFailed"
  /\ InitCatch
  /\ lastEvent' = Event("initialRead", NullKey, "null", "failed")
  /\ UNCHANGED << remote, notifVars, pushNotif, snapVars, childAddedOn, initResult,
                  refreshVars, pushVars, updateVars, mounted >>

\* Mutant: the subscription callback drops the delivered list.
RidesCallbackDrop(updatedRides) ==
  /\ rides' = rides
  /\ UNCHANGED notifVars

\* updatedRides => setRides(updatedRides)
RidesCallback(updatedRides) ==
  /\ rides' = SetRides(updatedRides)
  /\ UNCHANGED notifVars

\* The service delivers the current list to the registered subscribeToRides callback.
RidesDeliver ==
  /\ ridesSubscribed
  /\ RidesCallback(RidesList(remote))
  /\ lastEvent' = Event("ridesCallback", NullKey, "null", "ok")
  /\ UNCHANGED << remote, pushNotif, snapVars, childAddedOn, initVars,
                  loading, refreshVars, ridesSubscribed, pushVars, updateVars, mounted >>

\* ------------------------------------------------------------------ refresh
\* The FlatList with its RefreshControl is rendered only when not loading and
\* the list is non-empty; one refresh is in flight at a time.
RefreshStart ==
  /\ mounted
  /\ ~loading
  /\ Len(rides) > 0
  /\ refreshPc = "idle"
  /\ refreshing' = SetRefreshing(TRUE)
  /\ refreshPc' = "pending"
  /\ lastEvent' = Event("onRefresh", NullKey, "null", "none")
  /\ UNCHANGED << remote, notifVars, pushNotif, snapVars, childAddedOn, initVars, rides,
                  loading, refreshResult, ridesSubscribed, pushVars, updateVars, mounted >>

\* The store answers the refresh getRides(): its result is fixed here.
RefreshServe(res) ==
  /\ refreshPc = "pending"
  /\ refreshPc' = "served"
  /\ refreshResult' = res
  /\ lastEvent' = Event("refreshServed", NullKey, "null", "none")
  /\ UNCHANGED << remote, notifVars, pushNotif, snapVars, childAddedOn, initVars, rides,
                  loading, refreshing, ridesSubscribed, pushVars, updateVars, mounted >>

\* Mutant: the refresh result is dropped, only the flag is reset.
RefreshContinueDrop(refreshedRides) ==
  /\ rides' = rides
  /\ refreshing' = SetRefreshing(FALSE)

\* setRides(refreshedRides ?? []); finally { setRefreshing(false) }
RefreshContinue(refreshedRides) ==
  /\ rides' = SetRides(OrEmpty(refreshedRides))
  /\ refreshing' = SetRefreshing(FALSE)

RefreshResolve ==
  /\ refreshPc = "served"
  /\ refreshPc' = "idle"
  /\ RefreshContinue(refreshResult)
  /\ refreshResult' = NoResult
  /\ lastEvent' = Event("refresh", NullKey,
                        IF lastEvent.op = "ridesCallback" THEN "afterLive" ELSE "null", "ok")
  /\ UNCHANGED << remote, notifVars, pushNotif, snapVars, childAddedOn, initVars,
                  loading, ridesSubscribed, pushVars, updateVars, mounted >>

\* catch (err) { console.error } finally { setRefreshing(false) }
RefreshFail ==
  /\ refreshPc = "pending"
  /\ refreshPc' = "idle"
  /\ refreshing' = SetRefreshing(FALSE)
  /\ lastEvent' = Event("refresh", NullKey, "null", "failed")
  /\ UNCHANGED << remote, notifVars, pushNotif, snapVars, childAddedOn, initVars, rides,
                  loading, refreshResult, ridesSubscribed, pushVars, updateVars, mounted >>

\* ------------------------------------------------------- handleStatusUpdate
\* A RideCard of a ride shown as Requested offers Accept / Reject.
StatusUpdateStart(id, newStatus) ==
  /\ mounted
  /\ ~loading
  /\ \E i \in 1..Len(rides) : rides[i].id = id /\ rides[i].status = "Requested"
  /\ updateReq = NoUpdate
  /\ invocations < MaxUpdates
  /\ updateReq' = [id |-> id, status |-> newStatus]
  /\ invocations' = invocations + 1
  /\ lastEvent' = Event("handleStatusUpdate", id, "full", "none")
  /\ UNCHANGED << remote, notifVars, pushNotif, snapVars, childAddedOn, initVars, rides,
                  loading, refreshVars, ridesSubscribed, pushVars, alerts, lastAlert, mounted >>

\* Mutant: a successful write also patches the displayed entry optimistically.
StatusUpdateEndOptimistic(result) ==
  /\ alerts' = alerts + 1
  /\ lastAlert' = IF result = "true" THEN "success"
                  ELSE IF result = "false" THEN "failure" ELSE "error"
  /\ rides' = IF result = "true"
              THEN [i \in 1..Len(rides) |->
                      IF rides[i].id = updateReq.id
                        THEN [rides[i] EXCEPT !.status = updateReq.status]
                        ELSE rides[i]]
              ELSE rides
  /\ UNCHANGED << notifVars, ridesSubscribed, childAddedOn >>

\* Mutant: the catch only logs, no message is shown when the write throws.
StatusUpdateEndSilentThrow(result) ==
  /\ alerts' = IF result = "throw" THEN alerts ELSE alerts + 1
  /\ lastAlert' = IF result = "true" THEN "success"
                  ELSE IF result = "false" THEN "failure" ELSE lastAlert
  /\ UNCHANGED << rides, notifVars, ridesSubscribed, childAddedOn >>

\* The tail of handleStatusUpdate for each way the await can end.
StatusUpdateEnd(result) ==
  /\ alerts' = alerts + 1
  /\ lastAlert' = IF result = "true" THEN "success"
                  ELSE IF result = "false" THEN "failure" ELSE "error"
  /\ UNCHANGED << rides, notifVars, ridesSubscribed, childAddedOn >>

\* updateRideStatus wrote the status and resolved true.
UpdateOk ==
  /\ updateReq # NoUpdate
  /\ remote[updateReq.id] # "none"
  /\ remote' = [remote EXCEPT ![updateReq.id] = updateReq.status]
  /\ StatusUpdateEnd("true")
  /\ updateReq' = NoUpdate
  /\ lastEvent' = Event("statusUpdate", updateReq.id, "full", "true")
  /\ UNCHANGED << pushNotif, snapVars, initVars, loading, refreshVars,
                  pushVars, invocations, mounted >>

\* updateRideStatus resolved false or rejected: nothing was written.
UpdateFailed(result) ==
  /\ updateReq # NoUpdate
  /\ StatusUpdateEnd(result)
  /\ updateReq' = NoUpdate
  /\ lastEvent' = Event("statusUpdate", updateReq.id, "full", result)
  /\ UNCHANGED << remote, pushNotif, snapVars, initVars, loading, refreshVars,
                  pushVars, invocations, mounted >>

\* ----------------------------------------------------------------- teardown
\* The three effect cleanups: each removes a handler only if it is already there.
Teardown ==
  /\ mounted
  /\ mounted' = FALSE
  /\ childAddedOn' = FALSE
  /\ ridesSubscribed' = FALSE
  /\ onMessageOn' = FALSE
  /\ lastEvent' = Event("unmount", NullKey, "null", "none")
  /\ UNCHANGED << remote, notifVars, pushNotif, snapVars, initVars, rides,
                  loading, refreshVars, pushPc, updateVars >>

\* --------------------------------------------------------------------- Next
Next ==
  \/ \E x \in Ids : RemoteCreate(x)
  \/ SnapshotServe
  \/ SnapshotResolve
  \/ SnapshotFail
  \/ \E key \in Ids \cup {NullKey}, payload \in Payloads : ChildAdded(key, payload)
  \/ InitPushOk
  \/ InitPushFail
  \/ \E x \in Ids : PushMessage(x)
  \/ InitializeOk
  \/ InitializeFail
  \/ \E res \in GetRidesResults(remote) : GetRidesServe(res)
  \/ GetRidesResolve
  \/ GetRidesFail
  \/ RidesDeliver
  \/ RefreshStart
  \/ \E res \in GetRidesResults(remote) : RefreshServe(res)
  \/ RefreshResolve
  \/ RefreshFail
  \/ \E id \in Ids, newStatus \in {"Accepted", "Rejected"} : StatusUpdateStart(id, newStatus)
  \/ UpdateOk
  \/ \E result \in {"false", "throw"} : UpdateFailed(result)
  \/ Teardown

Spec == Init /\ [][Next]_vars

\* The ride-notification and push-setup effects alone (the view stays as mounted).
NextNotify ==
  \/ \E x \in Ids : RemoteCreate(x)
  \/ SnapshotServe
  \/ SnapshotResolve
  \/ SnapshotFail
  \/ \E key \in Ids \cup {NullKey}, payload \in Payloads : ChildAdded(key, payload)
  \/ InitPushOk
  \/ InitPushFail
  \/ \E x \in Ids : PushMessage(x)
  \/ Teardown

SpecNotify == Init /\ [][NextNotify]_vars

\* The initial-rides effect, refresh and handleStatusUpdate, with the child_added
\* listener running beside them (the one-shot read of the notification effect
\* stays pending, push setup stays in its awaits).
NextView ==
  \/ \E x \in Ids : RemoteCreate(x)
  \/ \E key \in Ids, payload \in {"full"} : ChildAdded(key, payload)
  \/ InitializeOk
  \/ InitializeFail
  \/ \E res \in GetRidesResults(remote) : GetRidesServe(res)
  \/ GetRidesResolve
  \/ GetRidesFail
  \/ RidesDeliver
  \/ RefreshStart
  \/ \E res \in GetRidesResults(remote) : RefreshServe(res)
  \/ RefreshResolve
  \/ RefreshFail
  \/ \E id \in Ids, newStatus \in {"Accepted", "Rejected"} : StatusUpdateStart(id, newStatus)
  \/ UpdateOk
  \/ \E result \in {"false", "throw"} : UpdateFailed(result)
  \/ Teardown

SpecView == Init /\ [][NextView]_vars

TypeOK ==
  /\ remote \in [Ids -> {"none"} \cup Statuses]
  /\ existingRideIds \subseteq Ids
  /\ localNotif \in [Ids -> 0..MaxNotif]
  /\ pushNotif \in [Ids -> 0..MaxPush]
  /\ snapState \in {"pending", "served", "done", "failed"}
  /\ snapKeys \subseteq Ids
  /\ initPc \in {"initialize", "getRides", "served", "ready", "initFailed", "readFailed"}
  /\ refreshPc \in {"idle", "pending", "served"}
  /\ pushPc \in {"init", "listening", "failed"}
  /\ loading \in BOOLEAN /\ refreshing \in BOOLEAN /\ mounted \in BOOLEAN
  /\ invocations \in 0..MaxUpdates /\ alerts \in 0..MaxUpdates


\* ===================================================================== claims
\* ------------------------------------------------------------------------ C1
\* C1: over any sequence of snapshot completions and child_added deliveries
\* (duplicates included), handleChildAdded dispatches at most one local
\* notification per record id.
AtMostOncePerId == \A x \in Ids : localNotif[x] <= 1

\* A second delivery of an id that was notified (and is in no snapshot) hit the gate.
DuplicateDeliveryAbsorbed ==
  /\ lastEvent.op = "child_added"
  /\ lastEvent.outcome = "skipped"
  /\ lastEvent.key \notin snapKeys
  /\ localNotif[lastEvent.key] = 1

\* ------------------------------------------------------------------------ C2
\* C2: once the snapshot callback has completed, a child_added delivery for an
\* id the snapshot contained dispatches nothing and leaves existingRideIds
\* unchanged; the snapshot completion itself dispatches nothing.
SnapshotIdsStaySilent ==
  [][ /\ (snapState = "done" /\ lastEvent'.op = "child_added" /\ lastEvent'.key \in snapKeys)
         => (localNotif' = localNotif /\ pushNotif' = pushNotif /\ existingRideIds' = existingRideIds)
      /\ (snapState # "done" /\ snapState' = "done")
         => (localNotif' = localNotif /\ pushNotif' = pushNotif) ]_vars

\* Scenario A: the snapshot held the id, then its child_added arrived: no notification.
CreatedAfterSnapshotSkipped ==
  /\ snapState = "done"
  /\ lastEvent.op = "child_added"
  /\ lastEvent.payload = "full"
  /\ lastEvent.key \in snapKeys
  /\ lastEvent.outcome = "skipped"
  /\ localNotif[lastEvent.key] = 0

\* ------------------------------------------------------------------------ C3
\* C3: under every interleaving, a record present in the snapshot never
\* generates a notification, even when its child_added event is delivered
\* before the snapshot read resolves.
SnapshotIdsNeverNotify == \A x \in snapKeys : localNotif[x] = 0

\* ------------------------------------------------------------------------ C4
\* C4: a child_added for an id not yet in existingRideIds that is delivered
\* before the snapshot completes dispatches exactly one notification for it;
\* no later step dispatches another one for that id, and the snapshot
\* completion that adds the id again dispatches nothing and removes nothing.
RacedAheadNotifiedOnce ==
  [][ /\ \A x \in Ids :
           /\ (lastEvent'.op = "child_added" /\ lastEvent'.key = x
               /\ lastEvent'.outcome = "notified" /\ snapState # "done")
              => (localNotif[x] = 0 /\ localNotif'[x] = 1 /\ x \in existingRideIds')
           /\ localNotif[x] = 1 => (localNotif'[x] = 1 /\ x \in existingRideIds')
      /\ lastEvent'.op = "snapshot"
         => (localNotif' = localNotif /\ existingRideIds \subseteq existingRideIds'
             /\ snapKeys \subseteq existingRideIds') ]_vars

\* Scenario C: the id was notified by its child_added, then the snapshot that
\* also holds it completed.
SnapshotAfterRacedCreate ==
  /\ lastEvent.op = "snapshot"
  /\ snapState = "done"
  /\ \E x \in snapKeys : localNotif[x] = 1

\* ------------------------------------------------------------------------ C5
\* C5: a record that is not in the snapshot and whose child_added was delivered
\* and notified gets exactly one dispatch, counting the child_added local
\* notification and the foreground push-message handler together.
NewRecordDispatchedOnce ==
  \A x \in Ids :
    (snapState \in {"served", "done"} /\ x \notin snapKeys /\ localNotif[x] >= 1)
      => localNotif[x] + pushNotif[x] = 1

\* ------------------------------------------------------------------------ C6
\* C6: a delivery to the subscribeToRides callback makes the displayed list show,
\* for every stored ride, its current status, and it changes neither the
\* notification counts nor existingRideIds (whether or not the id is in it).
ViewUpdateOnlyTouchesList ==
  [][ lastEvent'.op = "ridesCallback"
        => /\ localNotif' = localNotif
           /\ pushNotif' = pushNotif
           /\ existingRideIds' = existingRideIds
           /\ mounted => \A x \in Ids :
                StatusOf(rides', x) = IF remote[x] = "none" THEN {} ELSE {remote[x]} ]_vars

\* Scenario D: the ride was notified once by its child_added, updateRideStatus
\* returned true, and the update delivery made its entry show Accepted.
AcceptedShownAfterUpdate ==
  /\ lastEvent.op = "ridesCallback"
  /\ lastAlert = "success"
  /\ \E i \in 1..Len(rides) :
       /\ rides[i].status = "Accepted"
       /\ localNotif[rides[i].id] = 1
       /\ rides[i].id \in existingRideIds

\* ------------------------------------------------------------------------ C7
\* C7: after any sequence of initial-read results, subscription callbacks and
\* refresh results, the displayed list holds no two entries with the same id.
NoDuplicateIds ==
  \A i, j \in 1..Len(rides) : rides[i].id = rides[j].id => i = j

\* A refresh result replaced a list that the initial read and the subscription had set.
RefreshedListOfSeveral ==
  /\ lastEvent.op = "refresh"
  /\ lastEvent.outcome = "ok"
  /\ initPc = "ready"
  /\ Len(rides) >= 2

\* ------------------------------------------------------------------------ C8
\* C8: every step leaves existingRideIds a superset of its previous value; the
\* snapshot's bulk insertion keeps the ids inserted earlier by live events.
SeenSetOnlyGrows == [][existingRideIds \subseteq existingRideIds']_vars

\* The snapshot completed after a live event had inserted an id it does not hold.
SnapshotKeptRacedId ==
  /\ lastEvent.op = "snapshot"
  /\ \E x \in existingRideIds : x \notin snapKeys /\ localNotif[x] = 1


\* ------------------------------------------------------------------------ C9
\* C9: after the initial getRides() has failed, the list keeps its prior value,
\* the client has left the loading screen, and the live list subscription is
\* operating so that later live events can populate the list.
FailedReadKeepsLiveList ==
  (mounted /\ initPc = "readFailed") => (rides = << >> /\ ~loading /\ ridesSubscribed)

\* ----------------------------------------------------------------------- C10
\* C10: while the initial getRides() is still pending, the live list subscription
\* is open, so that live events delivered meanwhile are applied to the list.
PendingReadHasLiveList ==
  (mounted /\ initPc \in {"getRides", "served"}) => ridesSubscribed

\* What the code does instead: until initializeApp settles the client shows the
\* loading screen with an empty, unsubscribed list, and after a failed start the
\* list stays empty for good.
BlockedUntilReadSettles ==
  /\ (mounted /\ initPc \in {"initialize", "getRides", "served"})
       => (loading /\ rides = << >> /\ ~ridesSubscribed)
  /\ initPc \in {"initFailed", "readFailed"} => (rides = << >> /\ ~ridesSubscribed)


\* ----------------------------------------------------------------------- C11
\* C11: once the effect cleanups have run, no handler is registered or gets
\* registered any more, and existingRideIds, the displayed list and the
\* notification counts no longer change, wherever the teardown falls among the
\* pending asynchronous steps.
QuietAfterTeardown ==
  [][ ~mounted'
        => /\ ~childAddedOn' /\ ~ridesSubscribed' /\ ~onMessageOn'
           /\ ~mounted => /\ existingRideIds' = existingRideIds
                          /\ rides' = rides
                          /\ localNotif' = localNotif
                          /\ pushNotif' = pushNotif ]_vars

\* ----------------------------------------------------------------------- C12
\* C12: no step of handleStatusUpdate (its call, or its tail after the write
\* resolved true, resolved false or threw) changes the displayed list.
StatusUpdateLeavesList ==
  [][ lastEvent'.op \in {"handleStatusUpdate", "statusUpdate"} => rides' = rides ]_vars

\* The write succeeded and the list still shows the ride as Requested: the new
\* status has not been delivered by the store yet.
WrittenButNotYetShown ==
  /\ lastEvent.op = "statusUpdate"
  /\ lastEvent.outcome = "true"
  /\ remote[lastEvent.key] = "Accepted"
  /\ StatusOf(rides, lastEvent.key) = {"Requested"}

\* ----------------------------------------------------------------------- C13
\* C13: every settled handleStatusUpdate has shown exactly one message: the
\* success message iff the write resolved true, a failure message when it
\* resolved false or threw; a failed write leaves the store, existingRideIds,
\* the displayed list and the subscriptions as they were.
OneMessagePerUpdate ==
  [][ /\ alerts' + (IF updateReq' = NoUpdate THEN 0 ELSE 1) = invocations'
      /\ lastEvent'.op = "statusUpdate"
           => /\ alerts' = alerts + 1
              /\ lastAlert' = "success" <=> lastEvent'.outcome = "true"
              /\ lastEvent'.outcome = "false" => lastAlert' = "failure"
              /\ lastEvent'.outcome = "throw" => lastAlert' = "error"
              /\ lastEvent'.outcome # "true"
                   => /\ remote' = remote
                      /\ existingRideIds' = existingRideIds
                      /\ rides' = rides
                      /\ ridesSubscribed' = ridesSubscribed
                      /\ childAddedOn' = childAddedOn ]_vars

\* The write threw: one failure message, the subscription still registered.
ThrownWriteReported ==
  /\ lastEvent.op = "statusUpdate"
  /\ lastEvent.outcome = "throw"
  /\ lastAlert = "error"
  /\ alerts = invocations
  /\ ridesSubscribed

\* ----------------------------------------------------------------------- C14
\* C14: a child_added whose payload is null, has no key or lacks
\* pickupLocation / destinationLocation is discarded without a notification.
MalformedCreatedDiscarded ==
  (lastEvent.op = "child_added"
     /\ (lastEvent.payload \in {"null", "partial"} \/ lastEvent.key = NullKey))
    => lastEvent.outcome # "notified"

\* What the code does discard: a null payload and a missing key.
NullPayloadOrKeyDiscarded ==
  (lastEvent.op = "child_added" /\ (lastEvent.payload = "null" \/ lastEvent.key = NullKey))
    => lastEvent.outcome \in {"noPayload", "noKey"}


\* ----------------------------------------------------------------------- C15
\* C15: while mounted, the displayed list changes only when an initial-read
\* result, a subscription delivery or a refresh result is applied, and then
\* equals that payload (a null result shows as the empty list), whatever was
\* shown before; a failed refresh leaves the list unchanged.
ListIsLastDeliveredPayload ==
  [][ /\ rides' # rides
           => /\ lastEvent'.op \in {"initialRead", "ridesCallback", "refresh"}
              /\ lastEvent'.outcome = "ok"
      /\ mounted =>
           /\ (lastEvent'.op = "initialRead" /\ lastEvent'.outcome = "ok")
                => rides' = OrEmpty(initResult)
           /\ lastEvent'.op = "ridesCallback" => rides' = RidesList(remote)
           /\ (lastEvent'.op = "refresh" /\ lastEvent'.outcome = "ok")
                => rides' = OrEmpty(refreshResult)
      /\ (lastEvent'.op = "refresh" /\ lastEvent'.outcome = "failed") => rides' = rides ]_vars

\* A refresh result read before the latest live delivery was applied after it:
\* the list now lags behind the store, which the live delivery had shown.
StaleRefreshOverwroteLive ==
  /\ mounted
  /\ lastEvent.op = "refresh"
  /\ lastEvent.outcome = "ok"
  /\ lastEvent.payload = "afterLive"
  /\ Len(rides) > 0
  /\ rides # RidesList(remote)

\* ----------------------------------------------------------------------- C16
\* C16: every id notified by handleChildAdded is in existingRideIds; every
\* member of existingRideIds is a key of the completed snapshot or was notified;
\* and an id enters the set only in the snapshot callback or in the child_added
\* step that dispatches its notification.
SeenSetAccountsForNotifications ==
  [][ /\ \A x \in Ids : localNotif'[x] >= 1 => x \in existingRideIds'
      /\ \A x \in existingRideIds' :
           (snapState' = "done" /\ x \in snapKeys') \/ localNotif'[x] >= 1
      /\ \A x \in existingRideIds' \ existingRideIds :
           \/ lastEvent'.op = "snapshot" /\ x \in snapKeys /\ localNotif'[x] = localNotif[x]
           \/ /\ lastEvent'.op = "child_added" /\ lastEvent'.key = x
              /\ lastEvent'.outcome = "notified"
              /\ localNotif'[x] = localNotif[x] + 1 ]_vars

\* The set holds one id from the snapshot (never notified) and one from a live event.
SeenFromBothSources ==
  /\ snapState = "done"
  /\ \E x \in existingRideIds : x \in snapKeys /\ localNotif[x] = 0
  /\ \E y \in existingRideIds : y \notin snapKeys /\ localNotif[y] = 1

\* ----------------------------------------------------------------------- C17
\* C17: loading never returns to true; it turns false only when initializeApp
\* settles (on success with the initial list set and the subscription opened, on
\* failure from the catch) and is false whenever a mounted client has settled;
\* refreshing is false whenever no refresh is in flight, after success and failure.
FlagsSettle ==
  [][ /\ ~loading => ~loading'
      /\ (loading /\ ~loading')
           => \/ /\ initPc' = "ready" /\ ridesSubscribed'
                 /\ rides' = OrEmpty(initResult)
              \/ /\ initPc' \in {"initFailed", "readFailed"}
                 /\ lastEvent'.outcome = "failed"
      /\ (mounted' /\ initPc' \in {"ready", "initFailed", "readFailed"}) => ~loading'
      /\ (mounted' /\ initPc' \in {"initialize", "getRides", "served"}) => loading'
      /\ (mounted' /\ refreshPc' = "idle") => ~refreshing'
      /\ (mounted' /\ refreshPc' # "idle") => refreshing' ]_vars

\* A refresh failed after a successful start: both flags are false.
FailedRefreshSettled ==
  /\ mounted
  /\ initPc = "ready"
  /\ lastEvent.op = "refresh"
  /\ lastEvent.outcome = "failed"
  /\ ~loading
  /\ ~refreshing

====
